---------------------------- MODULE Spec2Model ----------------------------
(***************************************************************************)
(* Model of the daily-mental-health-tracker server: the mood store and the *)
(* POST /api/mood upsert (routes/mood.js), and the analytics handlers      *)
(* GET /api/analytics/overview, GET /api/analytics/trends,                 *)
(* GET /api/mood/stats and GET /api/journal/stats.                         *)
(*                                                                         *)
(* Time is counted in ticks; a calendar day has TicksPerDay ticks.  The    *)
(* server's timezone is tz ticks ahead of UTC: setHours(0,0,0,0) cuts a    *)
(* timestamp to local midnight, toISOString() prints the UTC day.          *)
(***************************************************************************)
EXTENDS Integers, Sequences, FiniteSets, TLC

VARIABLES
    now,             \* the server clock, in ticks (new Date())
    tz,              \* the server's offset from UTC, in ticks
    moodDb,          \* the MoodEntry collection
    journalDb,       \* the JournalEntry collection
    nextId,          \* the _id the next created document gets
    reqs,            \* the POST /api/mood requests in flight
    moodEntries,     \* MoodEntry.find(...).sort({date: 1}) of an analytics request
    activities,      \* Activity.find({isActive: true}) of an analytics request
    journalEntries,  \* JournalEntry.find(...) of an analytics request
    metric,          \* req.query.metric of GET /trends
    res              \* the body of the last response sent (None before any)

vars == <<now, tz, moodDb, journalDb, nextId, reqs, moodEntries, activities, journalEntries, metric, res>>

None == [route |-> "none"]

-----------------------------------------------------------------------------
(* Bounds of the model *)

TicksPerDay == 2
MaxDays == 4          \* days of history before "now" that inputs are drawn from
MaxJournal == 3       \* journal entries of one streak request
MaxTick == 2          \* the last tick of the clock of the mood store
NumUsers == 2
NumRequests == 2      \* POST /api/mood requests in flight at once

(* Program constants *)
TopN == 10            \* .slice(0, 10)

-----------------------------------------------------------------------------
(* Generic helpers *)

Range(s) == {s[i] : i \in 1..Len(s)}

RECURSIVE SumSeq(_)
SumSeq(s) == IF s = <<>> THEN 0 ELSE Head(s) + SumSeq(Tail(s))

RECURSIVE Gcd(_, _)
Gcd(a, b) == IF b = 0 THEN a ELSE Gcd(b, a % b)

(* JavaScript a / b for a >= 0, b > 0, kept as the reduced fraction; the
   doubles of two different small fractions differ, and 0 / b is 0. *)
Div(a, b) == LET g == Gcd(a, b) IN [num |-> a \div g, den |-> b \div g]

Zero == [num |-> 0, den |-> 1]

(* values.reduce((a, b) => a + b, 0) / values.length *)
Mean(values) == Div(SumSeq(values), Len(values))

(* Math.ceil(x / d) for integers x and d > 0 *)
CeilDiv(x, d) == -((-x) \div d)

SubSeqFrom(s, i) == IF i > Len(s) THEN <<>> ELSE SubSeq(s, i, Len(s))

(* Array.prototype.slice(0, n) *)
Slice0(s, n) == IF Len(s) <= n THEN s ELSE SubSeq(s, 1, n)

(* Array.prototype.sort((a, b) => key(b) - key(a)) on numeric keys: descending
   by key and stable (ES2019), so equal keys keep their input order.  The
   elements are [key |-> the number compared, item |-> the array element]. *)
RECURSIVE InsertDesc(_, _)
InsertDesc(sorted, x) ==
    IF sorted = <<>> THEN <<x>>
    ELSE IF x.key > Head(sorted).key THEN <<x>> \o sorted
         ELSE <<Head(sorted)>> \o InsertDesc(Tail(sorted), x)

RECURSIVE SortDesc(_)
SortDesc(s) ==
    IF s = <<>> THEN <<>>
    ELSE InsertDesc(SortDesc(SubSeq(s, 1, Len(s) - 1)), s[Len(s)])

Items(s) == [i \in 1..Len(s) |-> s[i].item]

-----------------------------------------------------------------------------
(* IEEE 754 doubles, for the one computation whose rounding decides a result
   (the trend's percent change).  A finite double is s * (h * 2^30 + l) * 2^e
   with the sign s in {-1, 0, 1} and, unless it is zero, a mantissa
   h * 2^30 + l of exactly 53 bits; <<h, l>> is a natural number in two limbs
   of 30 bits.  Every operation rounds to nearest, ties to even.  The values
   met here are far from overflow and underflow. *)

Limb == 2^30
HalfLimb == 2^15
TopLimb == 2^22      \* the high limb of the mantissa 2^52

Float(s, m, e) == [k |-> "fin", s |-> s, h |-> m[1], l |-> m[2], e |-> e]
FZero == [k |-> "fin", s |-> 0, h |-> 0, l |-> 0, e |-> 0]
FInfinity(s) == [k |-> "inf", s |-> s, h |-> 0, l |-> 0, e |-> 0]
FNaN == [k |-> "nan", s |-> 0, h |-> 0, l |-> 0, e |-> 0]

Mantissa(a) == <<a.h, a.l>>

GE2(a, b) == a[1] > b[1] \/ (a[1] = b[1] /\ a[2] >= b[2])

Sub2(a, b) ==
    IF a[2] >= b[2] THEN <<a[1] - b[1], a[2] - b[2]>>
    ELSE <<a[1] - b[1] - 1, a[2] + Limb - b[2]>>

Dbl2(a) == <<2 * a[1] + (2 * a[2]) \div Limb, (2 * a[2]) % Limb>>

Inc2(a) == IF a[2] + 1 < Limb THEN <<a[1], a[2] + 1>> ELSE <<a[1] + 1, 0>>

(* a shifted left by k bits, the result below 2^60 *)
Shl2(a, k) ==
    IF k < 30
    THEN <<a[1] * 2^k + a[2] \div 2^(30 - k), (a[2] % 2^(30 - k)) * 2^k>>
    ELSE <<a[2] * 2^(k - 30), 0>>

(* a shifted right by k < 30 bits *)
Shr2(a, k) == <<a[1] \div 2^k, a[2] \div 2^k + (a[1] % 2^k) * (Limb \div 2^k)>>

RECURSIVE BitLen(_)
BitLen(x) == IF x = 0 THEN 0 ELSE 1 + BitLen(x \div 2)

BitLen2(a) == IF a[1] > 0 THEN 30 + BitLen(a[1]) ELSE BitLen(a[2])

(* the double of mantissa m, which a rounding up may have carried to 2^53 *)
Normal(s, m, e) ==
    IF m[1] = 2 * TopLimb THEN Float(s, <<TopLimb, 0>>, e + 1) ELSE Float(s, m, e)

(* the double nearest to s * n * 2^e, for a natural n > 0 of up to 60 bits *)
RoundNat(s, n, e) ==
    LET len == BitLen2(n)
    IN IF len <= 53
       THEN Float(s, Shl2(n, 53 - len), e - (53 - len))
       ELSE LET k == len - 53
                rem == n[2] % 2^k
                half == 2^(k - 1)
                m == Shr2(n, k)
                up == rem > half \/ (rem = half /\ m[2] % 2 = 1)
            IN Normal(s, IF up THEN Inc2(m) ELSE m, e + k)

(* a natural number below 2^30 as a double *)
FromNat(n) == IF n = 0 THEN FZero ELSE RoundNat(1, <<0, n>>, 0)

FNeg(a) == [a EXCEPT !.s = -a.s]

(* One step of the long division by d: the next bit of the quotient q is 1
   when the remainder r holds d, which is then taken off; r is doubled. *)
DivStep(st, d) ==
    LET bit == GE2(st.r, d)
    IN [r |-> Dbl2(IF bit THEN Sub2(st.r, d) ELSE st.r),
        q |-> <<Dbl2(st.q)[1], Dbl2(st.q)[2] + (IF bit THEN 1 ELSE 0)>>]

(* i >= 1 steps of the division, halved and with the first half computed
   before the second half starts, so that the evaluation stays shallow *)
RECURSIVE DivSteps(_, _, _)
DivSteps(st, d, i) ==
    IF i = 1 THEN DivStep(st, d)
    ELSE LET half == DivSteps(st, d, i \div 2)
         IN  IF half.q \in Seq(Nat) THEN DivSteps(half, d, i - i \div 2) ELSE half

(* a / b: x / 0 is an infinity, 0 / 0 is NaN *)
FDiv(a, b) ==
    IF a.k = "nan" \/ b.k = "nan" THEN FNaN
    ELSE IF a.k = "inf" THEN (IF b.k = "inf" THEN FNaN
                              ELSE FInfinity(IF b.s = 0 THEN a.s ELSE a.s * b.s))
    ELSE IF b.k = "inf" THEN FZero
    ELSE IF b.s = 0 THEN (IF a.s = 0 THEN FNaN ELSE FInfinity(a.s))
    ELSE IF a.s = 0 THEN FZero
    ELSE LET big == GE2(Mantissa(a), Mantissa(b))
             r == IF big THEN Mantissa(a) ELSE Dbl2(Mantissa(a))
             e == IF big THEN a.e - b.e ELSE a.e - b.e - 1
             d == DivSteps([r |-> r, q |-> <<0, 0>>], Mantissa(b), 54)
             m == Shr2(d.q, 1)
             up == d.q[2] % 2 = 1 /\ (d.r # <<0, 0>> \/ m[2] % 2 = 1)
         IN Normal(a.s * b.s, IF up THEN Inc2(m) ELSE m, e - 52)

(* a - b for finite a >= 0 and b >= 0 whose exponents are at most 7 apart *)
FSub(a, b) ==
    IF b.s = 0 THEN a
    ELSE IF a.s = 0 THEN FNeg(b)
    ELSE LET e == IF a.e < b.e THEN a.e ELSE b.e
             x == Shl2(Mantissa(a), a.e - e)
             y == Shl2(Mantissa(b), b.e - e)
         IN IF x = y THEN FZero
            ELSE IF GE2(x, y) THEN RoundNat(1, Sub2(x, y), e)
            ELSE RoundNat(-1, Sub2(y, x), e)

(* a * 100 *)
FTimes100(a) ==
    IF a.k # "fin" \/ a.s = 0 THEN a
    ELSE LET l1 == a.l \div HalfLimb
             l0 == a.l % HalfLimb
             c == (100 * l1) \div HalfLimb
             r == (100 * l1) % HalfLimb
             low == r * HalfLimb + 100 * l0
         IN RoundNat(a.s, <<100 * a.h + c + low \div Limb, low % Limb>>, a.e)

(* a > b and a < b, false when either is NaN *)
MagGreater(a, b) ==
    a.e > b.e \/ (a.e = b.e /\ Mantissa(a) # Mantissa(b) /\ GE2(Mantissa(a), Mantissa(b)))

FGreater(a, b) ==
    IF a.k = "nan" \/ b.k = "nan" THEN FALSE
    ELSE IF a.k = "inf" \/ b.k = "inf"
         THEN (a.k = "inf" /\ a.s = 1 /\ ~(b.k = "inf" /\ b.s = 1))
              \/ (b.k = "inf" /\ b.s = -1 /\ ~(a.k = "inf" /\ a.s = -1))
    ELSE IF a.s # b.s THEN a.s > b.s
    ELSE IF a.s = 1 THEN MagGreater(a, b)
    ELSE IF a.s = -1 THEN MagGreater(b, a)
    ELSE FALSE

FLess(a, b) == FGreater(b, a)

-----------------------------------------------------------------------------
(* Dates *)

(* date.setHours(0, 0, 0, 0): the local midnight at or before t *)
LocalMidnight(t) == t - ((t + tz) % TicksPerDay)

(* the local calendar day of t, as a day number *)
LocalDay(t) == (t + tz) \div TicksPerDay

(* the UTC calendar day of t, as a day number *)
UtcDay(t) == t \div TicksPerDay


(* The calendar: tick 0 is 2024-01-29T00:00Z, so that the days the inputs are
   drawn from cross the end of a month. *)
Epoch == [y |-> 2024, m |-> 1, d |-> 29]

IsLeap(y) == (y % 4 = 0 /\ y % 100 # 0) \/ y % 400 = 0

DaysInMonth(y, m) ==
    IF m = 2 THEN (IF IsLeap(y) THEN 29 ELSE 28)
    ELSE IF m \in {4, 6, 9, 11} THEN 30 ELSE 31

RECURSIVE CivilFrom(_, _, _, _)
CivilFrom(y, m, d, n) ==
    IF n = 0 THEN [y |-> y, m |-> m, d |-> d]
    ELSE IF d < DaysInMonth(y, m) THEN CivilFrom(y, m, d + 1, n - 1)
    ELSE IF m < 12 THEN CivilFrom(y, m + 1, 1, n - 1)
    ELSE CivilFrom(y + 1, 1, 1, n - 1)

Civil(day) == CivilFrom(Epoch.y, Epoch.m, Epoch.d, day)

(* date.toISOString().split('T')[0]: "YYYY-MM-DD" of the UTC day, kept as its
   eight digits (the two dashes stand at the same places in every key). *)
DateKey(t) ==
    LET c == Civil(UtcDay(t))
    IN <<c.y \div 1000, (c.y \div 100) % 10, (c.y \div 10) % 10, c.y % 10,
         c.m \div 10, c.m % 10, c.d \div 10, c.d % 10>>

(* date.toISOString().substring(0, 7): "YYYY-MM" *)
MonthKey(t) == SubSeq(DateKey(t), 1, 6)

(* a < b for two strings of digits, as Array.prototype.sort() compares them:
   by code unit, a proper prefix first *)
RECURSIVE StrLess(_, _)
StrLess(a, b) ==
    IF b = <<>> THEN FALSE
    ELSE IF a = <<>> THEN TRUE
    ELSE IF Head(a) # Head(b) THEN Head(a) < Head(b)
    ELSE StrLess(Tail(a), Tail(b))

-----------------------------------------------------------------------------
(* Records *)

Moods == {"very-sad", "sad", "neutral", "happy", "very-happy"}

(* a score that counts from 0 *)
ZeroBasedScore(mood) ==
    CASE mood = "very-sad" -> 0
      [] mood = "sad" -> 1
      [] mood = "neutral" -> 2
      [] mood = "happy" -> 3
      [] mood = "very-happy" -> 4

(* moodEntrySchema.virtual('moodScore') *)
MoodScore(mood) ==
    CASE mood = "very-sad" -> 1
      [] mood = "sad" -> 2
      [] mood = "neutral" -> 3
      [] mood = "happy" -> 4
      [] mood = "very-happy" -> 5

(* the five counters marking the moods the entries have *)
PresenceDistribution(entries) ==
    [m \in Moods |-> IF \E i \in 1..Len(entries) : entries[i].mood = m THEN 1 ELSE 0]

(* moodDistribution: the five counters, entry.mood incremented per entry *)
MoodDistribution(entries) ==
    [m \in Moods |-> Cardinality({i \in 1..Len(entries) : entries[i].mood = m})]

ZeroDistribution == [m \in Moods |-> 0]

-----------------------------------------------------------------------------
(* The tag counter: const tagCounts = {} and tagCounts[tag] = (tagCounts[tag] || 0) + 1 *)

(* The names a plain object inherits from Object.prototype as functions. *)
ObjectPrototypeKeys ==
    {"constructor", "toString", "toLocaleString", "valueOf", "hasOwnProperty",
     "isPrototypeOf", "propertyIsEnumerable"}

(* The tags that are canonical array indices, with their numbers: an object
   lists such keys first, in ascending numeric order. *)
IndexKeys == {"2", "10"}
IndexValue(key) == CASE key = "2" -> 2 [] key = "10" -> 10

Num(n) == [t |-> "number", n |-> n]
(* the string "function Object() { [native code] }" followed by n times "1" *)
FnStr(n) == [t |-> "string", n |-> n]

HasOwn(obj, key) == \E i \in 1..Len(obj) : obj[i].k = key

(* obj[key]: the own property, else the inherited one, else undefined *)
ObjGet(obj, key) ==
    IF HasOwn(obj, key)
    THEN obj[CHOOSE i \in 1..Len(obj) : obj[i].k = key].v
    ELSE IF key \in ObjectPrototypeKeys THEN [t |-> "function", n |-> 0]
    ELSE [t |-> "undefined", n |-> 0]

(* obj[key] = v: an own property is overwritten in place, a new one is appended *)
ObjSet(obj, key, v) ==
    IF HasOwn(obj, key)
    THEN [i \in 1..Len(obj) |-> IF obj[i].k = key THEN [k |-> key, v |-> v] ELSE obj[i]]
    ELSE Append(obj, [k |-> key, v |-> v])

(* (x || 0) + 1 *)
OrZeroPlusOne(x) ==
    CASE x.t = "undefined" -> Num(1)
      [] x.t = "number" -> Num(x.n + 1)
      [] x.t = "function" -> FnStr(1)
      [] x.t = "string" -> FnStr(x.n + 1)

CountTag(obj, tag) == ObjSet(obj, tag, OrZeroPlusOne(ObjGet(obj, tag)))

RECURSIVE CountTags(_, _)
CountTags(obj, tags) ==
    IF tags = <<>> THEN obj ELSE CountTags(CountTag(obj, Head(tags)), Tail(tags))

(* journalEntries.forEach(entry => entry.tags.forEach(...)) *)
RECURSIVE TagCounts(_, _)
TagCounts(obj, entries) ==
    IF entries = <<>> THEN obj
    ELSE TagCounts(CountTags(obj, Head(entries).tags), Tail(entries))

(* Object.entries(obj): the array-index keys in ascending numeric order, then
   the other keys in the order they were created *)
ObjectEntries(obj) ==
    LET idx == [i \in 1..Len(obj) |->
                   [key |-> IF obj[i].k \in IndexKeys THEN -IndexValue(obj[i].k) ELSE 0,
                    item |-> obj[i]]]
        isIdx(e) == e.item.k \in IndexKeys
        notIdx(e) == e.item.k \notin IndexKeys
    IN Items(SortDesc(SelectSeq(idx, isIdx))) \o Items(SelectSeq(idx, notIdx))

(* ([, a], [, b]) => b - a, with NaN (a count that is no number) read as +0 *)
CompareCounts(a, b) ==
    IF a.v.t = "number" /\ b.v.t = "number" THEN b.v.n - a.v.n ELSE 0

Orders(s) ==
    LET n == Len(s)
        bij == {f \in [1..n -> 1..n] : \A i, j \in 1..n : f[i] = f[j] => i = j}
    IN {[i \in 1..n |-> s[f[i]]] : f \in bij}

(* The arrays .sort(([, a], [, b]) => b - a) may produce: the stable descending
   order when every count is a number; the input order when all pairs compare
   equal; any order when the comparator is inconsistent (implementation-defined). *)
SortOutcomes(entries) ==
    LET n == Len(entries)
    IN IF \A i \in 1..n : entries[i].v.t = "number"
       THEN {Items(SortDesc([i \in 1..n |-> [key |-> entries[i].v.n, item |-> entries[i]]]))}
       ELSE IF \A i, j \in 1..n : CompareCounts(entries[i], entries[j]) = 0
       THEN {entries}
       ELSE Orders(entries)

(* .slice(0, 10).map(([tag, count]) => ({ tag, count })) *)
TopTags(sorted) ==
    LET top == Slice0(sorted, TopN)
    IN [i \in 1..Len(top) |-> [tag |-> top[i].k, count |-> top[i].v]]

-----------------------------------------------------------------------------
(* The writing streak *)

(* journalEntries.sort((a, b) => new Date(b.date) - new Date(a.date)): sorts the
   array in place, newest first *)
SortByDateDesc(entries) ==
    Items(SortDesc([i \in 1..Len(entries) |-> [key |-> entries[i].date, item |-> entries[i]]]))

(* a walk that also counts a record of the cursor's day or the day before it *)
RECURSIVE SameDayWalk(_, _, _)
SameDayWalk(entries, streak, currentDate) ==
    IF entries = <<>> THEN streak
    ELSE LET entryDate == LocalMidnight(Head(entries).date)
             diffDays == CeilDiv(currentDate - entryDate, TicksPerDay)
         IN IF diffDays = streak + 1 \/ diffDays <= 1
            THEN SameDayWalk(Tail(entries), streak + 1, entryDate)
            ELSE streak

(* a walk that passes over a record failing the test and goes on *)
RECURSIVE SkippingWalk(_, _, _)
SkippingWalk(entries, streak, currentDate) ==
    IF entries = <<>> THEN streak
    ELSE LET entryDate == LocalMidnight(Head(entries).date)
             diffDays == CeilDiv(currentDate - entryDate, TicksPerDay)
         IN IF diffDays = streak + 1 \/ (streak = 0 /\ diffDays <= 1)
            THEN SkippingWalk(Tail(entries), streak + 1, entryDate)
            ELSE SkippingWalk(Tail(entries), streak, currentDate)

RECURSIVE StreakWalk(_, _, _)
StreakWalk(entries, streak, currentDate) ==
    IF entries = <<>> THEN streak
    ELSE LET entryDate == LocalMidnight(Head(entries).date)
             diffDays == CeilDiv(currentDate - entryDate, TicksPerDay)
         IN IF diffDays = streak + 1 \/ (streak = 0 /\ diffDays <= 1)
            THEN StreakWalk(Tail(entries), streak + 1, entryDate)
            ELSE streak

(* the walk started at the present instant, not at its midnight *)
StreakFromNow(sortedEntries) == StreakWalk(sortedEntries, 0, now)

WritingStreak(sortedEntries) == StreakWalk(sortedEntries, 0, LocalMidnight(now))

-----------------------------------------------------------------------------
(* Journal analytics, as GET /api/analytics/overview and GET /api/journal/stats
   both compute them; sortedTags is the outcome of the tag sort *)

TotalWords(entries) == SumSeq([i \in 1..Len(entries) |-> entries[i].wordCount])

JournalAnalytics(entries, sortedTags) ==
    IF Len(entries) > 0
    THEN [totalEntries |-> Len(entries),
          totalWords |-> TotalWords(entries),
          averageWordsPerEntry |-> Div(TotalWords(entries), Len(entries)),
          averageReadingTime |->
              Div(SumSeq([i \in 1..Len(entries) |-> entries[i].readingTime]), Len(entries)),
          moodDistribution |-> MoodDistribution(entries),
          mostUsedTags |-> TopTags(sortedTags),
          writingStreak |-> WritingStreak(SortByDateDesc(entries))]
    ELSE [totalEntries |-> Len(entries),
          totalWords |-> TotalWords(entries),
          averageWordsPerEntry |-> Zero,
          averageReadingTime |-> Zero,
          moodDistribution |-> ZeroDistribution,
          mostUsedTags |-> <<>>,
          writingStreak |-> 0]

(* stats.entriesByMonth[month] = (stats.entriesByMonth[month] || 0) + 1 *)
EntriesByMonth(entries) ==
    LET months == {MonthKey(entries[i].date) : i \in 1..Len(entries)}
    IN [m \in months |-> Cardinality({i \in 1..Len(entries) : MonthKey(entries[i].date) = m})]

(* the array after the handler: sorted in place when the streak was computed *)
AfterStreak(entries) == IF Len(entries) > 0 THEN SortByDateDesc(entries) ELSE entries

(* GET /api/journal/stats *)
GetJournalStats ==
    /\ \E sortedTags \in SortOutcomes(ObjectEntries(TagCounts(<<>>, journalEntries))) :
          res' = [route |-> "journal/stats",
                  stats |-> JournalAnalytics(journalEntries, sortedTags),
                  entriesByMonth |-> EntriesByMonth(journalEntries)]
    /\ journalEntries' = AfterStreak(journalEntries)
    /\ UNCHANGED <<now, tz, moodDb, journalDb, nextId, reqs, moodEntries, activities, metric>>

-----------------------------------------------------------------------------
(* Mood analytics, as GET /api/analytics/overview and GET /api/mood/stats both
   compute them *)

Metrics == {"mood", "energy", "stress", "anxiety", "sleep"}

(* entry.moodScore, entry.energy, entry.stress, entry.anxiety, entry.sleep.hours *)
MetricValue(entry, m) ==
    CASE m = "mood" -> MoodScore(entry.mood)
      [] m = "energy" -> entry.energy
      [] m = "stress" -> entry.stress
      [] m = "anxiety" -> entry.anxiety
      [] m = "sleep" -> entry.sleep

(* .sort({ date: 1 }) of the query: the array fetched is in ascending date order *)
SortedByDate(entries) ==
    \A i \in 1..(Len(entries) - 1) : entries[i].date <= entries[i + 1].date

(* moodEntries.map(entry => entry.<metric>) *)
Values(entries, m) == [i \in 1..Len(entries) |-> MetricValue(entries[i], m)]

(* the keys of dailyStats, in the order the forEach creates them *)
RECURSIVE DailyKeys(_, _)
DailyKeys(keys, entries) ==
    IF entries = <<>> THEN keys
    ELSE LET dateKey == DateKey(Head(entries).date)
         IN DailyKeys(IF dateKey \in Range(keys) THEN keys ELSE Append(keys, dateKey),
                      Tail(entries))

(* Object.keys(dailyStats).sort(): ascending as strings *)
RECURSIVE InsertKey(_, _)
InsertKey(sorted, x) ==
    IF sorted = <<>> THEN <<x>>
    ELSE IF StrLess(x, Head(sorted)) THEN <<x>> \o sorted
         ELSE <<Head(sorted)>> \o InsertKey(Tail(sorted), x)

RECURSIVE SortKeys(_)
SortKeys(keys) ==
    IF keys = <<>> THEN <<>>
    ELSE InsertKey(SortKeys(SubSeq(keys, 1, Len(keys) - 1)), keys[Len(keys)])

(* the values of every day together *)
AllValues(entries, m, dateKey) == Values(entries, m)

(* dailyStats[dateKey].<metric>: the day's values, in input order *)
DayValues(entries, m, dateKey) ==
    LET onDay(e) == DateKey(e.date) = dateKey
    IN Values(SelectSeq(entries, onDay), m)

(* trends.<metric>: one { date, value } per key of dailyStats *)
DailyTrend(entries, m) ==
    LET keys == SortKeys(DailyKeys(<<>>, entries))
    IN [i \in 1..Len(keys) |->
           [date |-> keys[i], value |-> Mean(DayValues(entries, m, keys[i]))]]

MoodAnalytics(entries, trendMetrics) ==
    IF Len(entries) > 0
    THEN [totalEntries |-> Len(entries),
          averageMood |-> Mean(Values(entries, "mood")),
          averageEnergy |-> Mean(Values(entries, "energy")),
          averageStress |-> Mean(Values(entries, "stress")),
          averageAnxiety |-> Mean(Values(entries, "anxiety")),
          averageSleep |-> Mean(Values(entries, "sleep")),
          moodDistribution |-> MoodDistribution(entries),
          trends |-> [m \in trendMetrics |-> DailyTrend(entries, m)]]
    ELSE [totalEntries |-> Len(entries),
          averageMood |-> Zero,
          averageEnergy |-> Zero,
          averageStress |-> Zero,
          averageAnxiety |-> Zero,
          averageSleep |-> Zero,
          moodDistribution |-> ZeroDistribution,
          trends |-> [m \in trendMetrics |-> <<>>]]

(* GET /api/mood/stats: the trends hold no sleep series *)
GetMoodStats ==
    /\ SortedByDate(moodEntries)
    /\ res' = [route |-> "mood/stats",
               stats |-> MoodAnalytics(moodEntries, Metrics \ {"sleep"})]
    /\ UNCHANGED <<now, tz, moodDb, journalDb, nextId, reqs, moodEntries, activities, journalEntries, metric>>

-----------------------------------------------------------------------------
(* Activity analytics of GET /api/analytics/overview *)

TotalImpact(a) == a.moodImpact + a.energyImpact

(* .filter(a => a.moodImpact > 0 || a.energyImpact > 0).sort(by totalImpact,
   descending).slice(0, 10).map(...) *)
TopActivities(acts) ==
    LET positive(a) == a.moodImpact > 0 \/ a.energyImpact > 0
        kept == SelectSeq(acts, positive)
        top == Slice0(Items(SortDesc([i \in 1..Len(kept) |->
                         [key |-> TotalImpact(kept[i]), item |-> kept[i]]])), TopN)
    IN [i \in 1..Len(top) |->
           [name |-> top[i].name, category |-> top[i].category,
            moodImpact |-> top[i].moodImpact, energyImpact |-> top[i].energyImpact,
            totalImpact |-> TotalImpact(top[i])]]

CategoryDistribution(acts) ==
    LET cats == {acts[i].category : i \in 1..Len(acts)}
    IN [c \in cats |-> Cardinality({i \in 1..Len(acts) : acts[i].category = c})]

ActivityAnalytics(acts) ==
    LET recurring(a) == a.isRecurring
    IN IF Len(acts) > 0
       THEN [totalActivities |-> Len(acts),
             categoryDistribution |-> CategoryDistribution(acts),
             averageMoodImpact |->
                 Div(SumSeq([i \in 1..Len(acts) |-> acts[i].moodImpact]), Len(acts)),
             averageEnergyImpact |->
                 Div(SumSeq([i \in 1..Len(acts) |-> acts[i].energyImpact]), Len(acts)),
             recurringActivities |-> Len(SelectSeq(acts, recurring)),
             topActivities |-> TopActivities(acts)]
       ELSE [totalActivities |-> Len(acts),
             categoryDistribution |-> <<>>,
             averageMoodImpact |-> Zero,
             averageEnergyImpact |-> Zero,
             recurringActivities |-> Len(SelectSeq(acts, recurring)),
             topActivities |-> <<>>]

-----------------------------------------------------------------------------
(* Insights and recommendations of GET /api/analytics/overview *)

(* q < n and q > n for an average q and an integer n *)
Below(q, n) == q.num < n * q.den
Above(q, n) == q.num > n * q.den

(* a message: its text, with the name, category and number a template takes *)
Msg(text) == [text |-> text, name |-> "", category |-> "", n |-> 0]

LowMoodInsight == Msg("Your mood has been lower than average recently.")
LowMoodAdvice ==
    Msg("Consider engaging in activities that typically boost your mood, or reach out to a mental health professional.")
GreatMoodInsight == Msg("You've been in a great mood lately! Keep up the positive energy.")
SleepInsight == Msg("Your sleep duration is below the recommended 7-9 hours.")
SleepAdvice ==
    Msg("Try to establish a consistent sleep schedule and create a relaxing bedtime routine.")
StressInsight == Msg("Your stress levels have been high recently.")
StressAdvice ==
    Msg("Consider stress-reduction techniques like meditation, deep breathing, or physical exercise.")
ActivityInsight(a) ==
    [text |-> "Your most positive activity is ${name} (${category}).",
     name |-> a.name, category |-> a.category, n |-> 0]
(* the advice naming the activity's category *)
AdviceByCategory(a) ==
    [text |-> "Try to incorporate more ${name} into your daily routine.",
     name |-> a.category, category |-> "", n |-> 0]

ActivityAdvice(a) ==
    [text |-> "Try to incorporate more ${name} into your daily routine.",
     name |-> a.name, category |-> "", n |-> 0]
StreakInsight(streak) ==
    [text |-> "Amazing! You have a ${n}-day writing streak.",
     name |-> "", category |-> "", n |-> streak]
WriteDailyAdvice == Msg("Try to write in your journal daily to build a consistent habit.")

LowMoodLimit == 3
GreatMoodLimit == 4
SleepLimit == 7
StressLimit == 7
StreakLimit == 7

MoodInsights(mood) ==
    IF Below(mood.averageMood, LowMoodLimit) THEN <<LowMoodInsight>>
    ELSE IF Above(mood.averageMood, GreatMoodLimit) THEN <<GreatMoodInsight>>
    ELSE <<>>

(* the advice given up to the limit, the limit included *)
AdviceUpToLimit(mood) ==
    IF ~Above(mood.averageMood, LowMoodLimit) THEN <<LowMoodAdvice>> ELSE <<>>

MoodAdvice(mood) ==
    IF Below(mood.averageMood, LowMoodLimit) THEN <<LowMoodAdvice>> ELSE <<>>

(* the insights with the streak celebrated from the limit on *)
InsightsFromLimit(mood, act, journal) ==
    MoodInsights(mood)
    \o (IF Below(mood.averageSleep, SleepLimit) THEN <<SleepInsight>> ELSE <<>>)
    \o (IF Above(mood.averageStress, StressLimit) THEN <<StressInsight>> ELSE <<>>)
    \o (IF Len(act.topActivities) > 0
        THEN <<ActivityInsight(act.topActivities[1])>> ELSE <<>>)
    \o (IF journal.writingStreak >= StreakLimit
        THEN <<StreakInsight(journal.writingStreak)>> ELSE <<>>)

(* the insights with the stress rule ahead of the sleep rule *)
InsightsStressFirst(mood, act, journal) ==
    MoodInsights(mood)
    \o (IF Above(mood.averageStress, StressLimit) THEN <<StressInsight>> ELSE <<>>)
    \o (IF Below(mood.averageSleep, SleepLimit) THEN <<SleepInsight>> ELSE <<>>)
    \o (IF Len(act.topActivities) > 0
        THEN <<ActivityInsight(act.topActivities[1])>> ELSE <<>>)
    \o (IF journal.writingStreak > StreakLimit
        THEN <<StreakInsight(journal.writingStreak)>> ELSE <<>>)

Insights(mood, act, journal) ==
    MoodInsights(mood)
    \o (IF Below(mood.averageSleep, SleepLimit) THEN <<SleepInsight>> ELSE <<>>)
    \o (IF Above(mood.averageStress, StressLimit) THEN <<StressInsight>> ELSE <<>>)
    \o (IF Len(act.topActivities) > 0
        THEN <<ActivityInsight(act.topActivities[1])>> ELSE <<>>)
    \o (IF journal.writingStreak > StreakLimit
        THEN <<StreakInsight(journal.writingStreak)>> ELSE <<>>)

(* the recommendations with the stress advice given only when the sleep advice
   is not *)
ChainedRecommendations(mood, act, journal) ==
    MoodAdvice(mood)
    \o (IF Below(mood.averageSleep, SleepLimit) THEN <<SleepAdvice>>
        ELSE IF Above(mood.averageStress, StressLimit) THEN <<StressAdvice>> ELSE <<>>)
    \o (IF Len(act.topActivities) > 0
        THEN <<ActivityAdvice(act.topActivities[1])>> ELSE <<>>)
    \o (IF journal.writingStreak > StreakLimit THEN <<>>
        ELSE IF journal.writingStreak = 0 /\ journal.totalEntries > 0
        THEN <<WriteDailyAdvice>> ELSE <<>>)

Recommendations(mood, act, journal) ==
    MoodAdvice(mood)
    \o (IF Below(mood.averageSleep, SleepLimit) THEN <<SleepAdvice>> ELSE <<>>)
    \o (IF Above(mood.averageStress, StressLimit) THEN <<StressAdvice>> ELSE <<>>)
    \o (IF Len(act.topActivities) > 0
        THEN <<ActivityAdvice(act.topActivities[1])>> ELSE <<>>)
    \o (IF journal.writingStreak > StreakLimit THEN <<>>
        ELSE IF journal.writingStreak = 0 /\ journal.totalEntries > 0
        THEN <<WriteDailyAdvice>> ELSE <<>>)

(* GET /api/analytics/overview *)
GetOverview ==
    /\ SortedByDate(moodEntries)
    /\ SortedByDate(journalEntries)
    /\ \E sortedTags \in SortOutcomes(ObjectEntries(TagCounts(<<>>, journalEntries))) :
          LET mood == MoodAnalytics(moodEntries, Metrics)
              act == ActivityAnalytics(activities)
              journal == JournalAnalytics(journalEntries, sortedTags)
          IN res' = [route |-> "overview",
                     moodAnalytics |-> mood,
                     activityAnalytics |-> act,
                     journalAnalytics |-> journal,
                     insights |-> Insights(mood, act, journal),
                     recommendations |-> Recommendations(mood, act, journal)]
    /\ journalEntries' = AfterStreak(journalEntries)
    /\ UNCHANGED <<now, tz, moodDb, journalDb, nextId, reqs, moodEntries, activities, metric>>

-----------------------------------------------------------------------------
(* GET /api/analytics/trends *)

(* a JavaScript number that is an integer *)
Whole(v) == [num |-> v, den |-> 1]
Infinity == [num |-> 1, den |-> 0]
MinusInfinity == [num |-> -1, den |-> 0]
NaN == [num |-> 0, den |-> 0]
(* undefined, in a place that holds numbers *)
Undefined == [num |-> 0, den |-> -1]

SetMin(S) == CHOOSE x \in S : \A y \in S : x <= y
SetMax(S) == CHOOSE x \in S : \A y \in S : x >= y

(* a minimum that is zeroed for fewer than two values *)
ZeroedMin(values) == IF Len(values) < 2 THEN Whole(0) ELSE Whole(SetMin(Range(values)))

(* the last value in place of the greatest *)
LastValue(values) == IF values = <<>> THEN MinusInfinity ELSE Whole(values[Len(values)])

(* Math.min(...values), Math.max(...values) *)
MathMin(values) == IF values = <<>> THEN Infinity ELSE Whole(SetMin(Range(values)))
MathMax(values) == IF values = <<>> THEN MinusInfinity ELSE Whole(SetMax(Range(values)))

(* values.reduce((a, b) => a + b, 0) / values.length, 0 / 0 being NaN *)
Average(values) == IF values = <<>> THEN NaN ELSE Mean(values)

(* the switch over the metric: no case matches another name, values stays [] *)
TrendValues(entries, m) == IF m \in Metrics THEN Values(entries, m) ELSE <<>>

(* the trend direction of a series of at least two values *)
TrendDirection(values) ==
    LET half == Len(values) \div 2
        firstHalf == SubSeq(values, 1, half)
        secondHalf == SubSeqFrom(values, half + 1)
        firstAvg == FDiv(FromNat(SumSeq(firstHalf)), FromNat(Len(firstHalf)))
        secondAvg == FDiv(FromNat(SumSeq(secondHalf)), FromNat(Len(secondHalf)))
        change == FTimes100(FDiv(FSub(secondAvg, firstAvg), firstAvg))
    IN IF FGreater(change, FromNat(5)) THEN "increasing"
       ELSE IF FLess(change, FNeg(FromNat(5))) THEN "decreasing"
       ELSE "stable"

(* the variance of a sample: the squares summed and divided by one less than
   the number of values *)
SampleVariance(values) ==
    LET n == Len(values)
        s == SumSeq(values)
        sq == SumSeq([i \in 1..n |-> values[i] * values[i]])
    IN IF n < 2 THEN NaN ELSE Div(n * sq - s * s, n * (n - 1))

(* sum((val - average)^2) / values.length, as a fraction; NaN for no values *)
Variance(values) ==
    LET n == Len(values)
        s == SumSeq(values)
        sq == SumSeq([i \in 1..n |-> values[i] * values[i]])
    IN IF n = 0 THEN NaN ELSE Div(n * sq - s * s, n * n)

(* Math.sqrt(variance), kept as the number it is the root of *)
Sqrt(q) == [sqrtOf |-> q]

Statistics(values) ==
    [min |-> MathMin(values),
     max |-> MathMax(values),
     average |-> Average(values),
     trend |-> IF Len(values) >= 2 THEN TrendDirection(values) ELSE "stable",
     volatility |-> Sqrt(Variance(values))]

(* the statistics of no values, computed *)
ComputedStatistics == Statistics(<<>>)

DefaultStatistics ==
    [min |-> Whole(0), max |-> Whole(0), average |-> Whole(0), trend |-> "stable",
     volatility |-> Sqrt(Whole(0))]

(* trends.data: { date, value: values[index] }, undefined past the values *)
TrendData(entries, values) ==
    [i \in 1..Len(entries) |->
        [date |-> DateKey(entries[i].date),
         value |-> IF i <= Len(values) THEN Whole(values[i]) ELSE Undefined]]

GetTrends ==
    /\ SortedByDate(moodEntries)
    /\ res' = [route |-> "trends",
               metric |-> metric,
               data |-> IF Len(moodEntries) > 0
                        THEN TrendData(moodEntries, TrendValues(moodEntries, metric))
                        ELSE <<>>,
               statistics |-> IF Len(moodEntries) > 0
                              THEN Statistics(TrendValues(moodEntries, metric))
                              ELSE DefaultStatistics]
    /\ UNCHANGED <<now, tz, moodDb, journalDb, nextId, reqs, moodEntries, activities, journalEntries, metric>>

-----------------------------------------------------------------------------
(* POST /api/mood: one entry per user and day, found and then saved *)

(* the express-validator chain on the body *)
ValidMoodBody(b) ==
    /\ b.mood \in Moods
    /\ b.energy \in 1..10
    /\ b.stress \in 1..10
    /\ b.anxiety \in 1..10
    /\ b.sleep \in 0..24

MoodDoc(id, user, date, b) ==
    [id |-> id, user |-> user, date |-> date, mood |-> b.mood, energy |-> b.energy,
     stress |-> b.stress, anxiety |-> b.anxiety, sleep |-> b.sleep]

(* the entries of the user dated from today's local midnight up to, not
   including, the next *)
TodaysEntries(user) ==
    LET today == LocalMidnight(now)
    IN {d \in moodDb : d.user = user /\ d.date >= today /\ d.date < today + TicksPerDay}

(* a request slot with no POST /api/mood in it *)
IdleRequest ==
    [pc |-> "idle", user |-> 0,
     body |-> [mood |-> "", energy |-> 0, stress |-> 0, anxiety |-> 0, sleep |-> 0],
     found |-> 0]

(* The handler up to the answer of MoodEntry.findOne: a body that fails the
   validation is answered 400; else the request holds the entry found, or 0. *)
PostMoodFind(r, user, body) ==
    /\ reqs[r].pc = "idle"
    /\ IF ~ValidMoodBody(body)
       THEN /\ res' = [route |-> "mood", status |-> 400]
            /\ UNCHANGED reqs
       ELSE /\ \E found \in IF TodaysEntries(user) = {} THEN {0}
                            ELSE {d.id : d \in TodaysEntries(user)} :
                  reqs' = [reqs EXCEPT ![r] =
                              [pc |-> "found", user |-> user, body |-> body, found |-> found]]
            /\ UNCHANGED res
    /\ UNCHANGED <<now, tz, moodDb, journalDb, nextId, moodEntries, activities, journalEntries, metric>>

(* moodEntrySchema.index({ user: 1, date: 1 }, { unique: true }) *)
DuplicateKey(user, date) == \E d \in moodDb : d.user = user /\ d.date = date

(* The rest of the handler: the entry found is updated in place (500 when it
   is gone), or a new one is created, dated Date.now (500 on a duplicate key). *)
PostMoodSave(r) ==
    LET q == reqs[r]
    IN /\ q.pc = "found"
       /\ IF q.found # 0
          THEN IF \E d \in moodDb : d.id = q.found
               THEN /\ moodDb' = {IF d.id = q.found
                                  THEN MoodDoc(d.id, q.user, d.date, q.body) ELSE d :
                                  d \in moodDb}
                    /\ res' = [route |-> "mood", status |-> 200]
                    /\ UNCHANGED nextId
               ELSE /\ res' = [route |-> "mood", status |-> 500]
                    /\ UNCHANGED <<moodDb, nextId>>
          ELSE IF DuplicateKey(q.user, now)
               THEN /\ res' = [route |-> "mood", status |-> 500]
                    /\ UNCHANGED <<moodDb, nextId>>
               ELSE /\ moodDb' = moodDb \cup {MoodDoc(nextId, q.user, now, q.body)}
                    /\ nextId' = nextId + 1
                    /\ res' = [route |-> "mood", status |-> 201]
       /\ reqs' = [reqs EXCEPT ![r] = IdleRequest]
       /\ UNCHANGED <<now, tz, journalDb, moodEntries, activities, journalEntries, metric>>

(* the clock advances *)
Tick ==
    /\ now < MaxTick
    /\ now' = now + 1
    /\ UNCHANGED <<tz, moodDb, journalDb, nextId, reqs, moodEntries, activities, journalEntries, metric, res>>

-----------------------------------------------------------------------------
(* Inputs *)

NowTick == MaxDays * TicksPerDay + (TicksPerDay - 1)
TzOffsets == {0, 1}

SeqsUpTo(S, n) == UNION {[1..k -> S] : k \in 0..n}

JournalDoc(date, mood, tags) ==
    [date |-> date, mood |-> mood, tags |-> tags, wordCount |-> 1, readingTime |-> 1]

InitAnalytics(ME, ACT, JE, MET) ==
    /\ now = NowTick
    /\ tz \in TzOffsets
    /\ moodDb = {}
    /\ journalDb = {}
    /\ nextId = 1
    /\ reqs = <<>>
    /\ moodEntries \in ME
    /\ activities \in ACT
    /\ journalEntries \in JE
    /\ metric \in MET
    /\ res = None

(* The streak: journal entries of any dates, in any order *)
StreakDocs == {JournalDoc(d, "neutral", <<>>) : d \in 0..NowTick}

InitStreak == InitAnalytics({<<>>}, {<<>>}, SeqsUpTo(StreakDocs, MaxJournal), {"mood"})

NextStreak == GetJournalStats \/ GetOverview

SpecStreak == InitStreak /\ [][NextStreak]_vars

(* The mood store: concurrent POST /api/mood requests of a few users *)
Users == 1..NumUsers
Requests == 1..NumRequests

MoodBody(mood, energy, stress, anxiety, sleep) ==
    [mood |-> mood, energy |-> energy, stress |-> stress, anxiety |-> anxiety,
     sleep |-> sleep]

PostBodies == {MoodBody("happy", 5, 5, 5, 8), MoodBody("sad", 3, 8, 6, 0),
               MoodBody("angry", 5, 5, 5, 8)}

InitMood ==
    /\ now = 0
    /\ tz \in TzOffsets
    /\ moodDb = {}
    /\ journalDb = {}
    /\ nextId = 1
    /\ reqs = [r \in Requests |-> IdleRequest]
    /\ moodEntries = <<>>
    /\ activities = <<>>
    /\ journalEntries = <<>>
    /\ metric = "mood"
    /\ res = None

NextMood ==
    \/ \E r \in Requests, user \in Users, body \in PostBodies : PostMoodFind(r, user, body)
    \/ \E r \in Requests : PostMoodSave(r)
    \/ Tick

SpecMood == InitMood /\ [][NextMood]_vars

(* The trend statistics: mood entries of consecutive ticks, so in ascending
   date order, and any metric name, the validators of the route being declared
   but their result never read *)
MaxSeries == 5
MaxBoundary == 6

MoodEntry(date, b) ==
    [date |-> date, mood |-> b.mood, energy |-> b.energy, stress |-> b.stress,
     anxiety |-> b.anxiety, sleep |-> b.sleep]

SeriesOf(samples, n) ==
    UNION {{[i \in 1..k |-> MoodEntry(i - 1, f[i])] : f \in [1..k -> samples]} : k \in 0..n}

TrendSamples == {MoodBody("very-sad", 1, 1, 1, 0), MoodBody("neutral", 5, 5, 5, 5),
                 MoodBody("very-happy", 10, 10, 10, 10)}

MetricNames == Metrics \cup {"weight"}

InitTrends == InitAnalytics(SeriesOf(TrendSamples, MaxSeries), {<<>>}, {<<>>}, MetricNames)

NextTrends == GetTrends

SpecTrends == InitTrends /\ [][NextTrends]_vars

(* Series whose halves differ by about five percent *)
BoundarySamples == {MoodBody("neutral", 6, 5, 5, 8), MoodBody("neutral", 7, 5, 5, 8)}

InitBoundary ==
    InitAnalytics(SeriesOf(BoundarySamples, MaxBoundary), {<<>>}, {<<>>}, {"energy"})

SpecBoundary == InitBoundary /\ [][NextTrends]_vars

(* The tags: journal entries of consecutive ticks, each with one of a few tag
   lists, and the arrays that hold more than TopN different tags *)
TagLists == {<<"a", "b">>, <<"a", "c">>, <<"b", "a">>, <<"10", "2">>, <<"constructor">>}

ManyTags == <<"t01", "t02", "t03", "t04", "t05", "t06", "t07", "t08", "t09", "t10", "t11">>

TaggedEntries(n) ==
    UNION {{[i \in 1..k |-> JournalDoc(i - 1, "neutral", f[i])] : f \in [1..k -> TagLists]} :
           k \in 0..n}

ManyTagEntries ==
    {<<JournalDoc(0, "neutral", ManyTags)>>,
     <<JournalDoc(0, "neutral", <<"t11">>), JournalDoc(1, "neutral", ManyTags)>>}

InitTags ==
    InitAnalytics({<<>>}, {<<>>}, TaggedEntries(MaxJournal) \cup ManyTagEntries, {"mood"})

NextTags == GetJournalStats \/ GetOverview

SpecTags == InitTags /\ [][NextTags]_vars

(* The analytics routes together: mood entries of a few dates in ascending
   order, with or without activities and a journal entry *)
MaxMood == 3

MoodSamples == {MoodBody("sad", 3, 8, 6, 6), MoodBody("very-happy", 9, 1, 1, 9)}

(* two instants of the first day, then the third and the fourth day: the end
   of January and the first of February *)
MoodDates == {0, 1, 2 * TicksPerDay, 3 * TicksPerDay}

MoodArrays ==
    UNION {{a \in [1..k -> {MoodEntry(d, b) : d \in MoodDates, b \in MoodSamples}] :
               SortedByDate(a)} : k \in 0..MaxMood}

ActivityDoc(name, category, moodImpact, energyImpact, isRecurring) ==
    [name |-> name, category |-> category, moodImpact |-> moodImpact,
     energyImpact |-> energyImpact, isRecurring |-> isRecurring]

ActivityArrays ==
    {<<>>, <<ActivityDoc("news", "other", -2, 0, FALSE),
             ActivityDoc("walk", "exercise", 3, 2, TRUE)>>}

JournalArrays == {<<>>, <<JournalDoc(NowTick, "happy", <<"a">>)>>}

Init == InitAnalytics(MoodArrays, ActivityArrays, JournalArrays, {"mood"})

Next == GetOverview \/ GetMoodStats \/ GetJournalStats \/ GetTrends

Spec == Init /\ [][Next]_vars

-----------------------------------------------------------------------------
(* The journal store: POST /api/journal and PUT /api/journal/:id *)

MaxEntries == 2       \* journal entries ever created
ReadingSpeed == 200   \* Math.ceil(this.wordCount / 200)
MaxContent == 10000   \* isLength({ min: 1, max: 10000 })

(* A content: `lead` blanks and then `words` one-letter words with a blank
   between two of them. *)
Content(lead, words) == [lead |-> lead, words |-> words]

(* content.length *)
ContentLength(c) == c.lead + c.words + (IF c.words > 1 THEN c.words - 1 ELSE 0)

(* content.trim().split(/\s+/).length: the empty string splits into [""] *)
SplitLength(c) == IF c.words = 0 THEN 1 ELSE c.words

(* a field of a request body: <<>> when the body does not hold it *)
Absent == <<>>
Some(x) == <<x>>

JournalBody(content, wordCount, readingTime, user) ==
    [content |-> content, wordCount |-> wordCount, readingTime |-> readingTime,
     user |-> user]

(* body('content').isLength({ min: 1, max: 10000 }) *)
ValidContent(c) == ContentLength(c) >= 1 /\ ContentLength(c) <= MaxContent

(* journalEntrySchema.pre('save') *)
PreSave(doc, contentModified) ==
    IF contentModified
    THEN [doc EXCEPT !.wordCount = SplitLength(doc.content),
                     !.readingTime = CeilDiv(SplitLength(doc.content), ReadingSpeed)]
    ELSE doc

(* POST /api/journal: the body's content is required; the new entry is the
   requester's, its counters start at the schema defaults *)
PostJournal(user, b) ==
    /\ nextId <= MaxEntries
    /\ IF b.content = Absent \/ ~ValidContent(b.content[1])
       THEN /\ res' = [route |-> "journal", status |-> 400]
            /\ UNCHANGED <<journalDb, nextId>>
       ELSE /\ journalDb' = journalDb \cup
                   {PreSave([id |-> nextId, user |-> user, content |-> b.content[1],
                             wordCount |-> 0, readingTime |-> 0], TRUE)}
            /\ nextId' = nextId + 1
            /\ res' = [route |-> "journal", status |-> 201]
    /\ UNCHANGED <<now, tz, moodDb, reqs, moodEntries, activities, journalEntries, metric>>

(* Object.assign(journalEntry, req.body): every field the body holds is set *)
Assign(doc, b) ==
    [id |-> doc.id,
     user |-> IF b.user = Absent THEN doc.user ELSE b.user[1],
     content |-> IF b.content = Absent THEN doc.content ELSE b.content[1],
     wordCount |-> IF b.wordCount = Absent THEN doc.wordCount ELSE b.wordCount[1],
     readingTime |-> IF b.readingTime = Absent THEN doc.readingTime ELSE b.readingTime[1]]

(* The ids of the requests: those of the entries that can be created, and
   NoObjectId for a string that is not an ObjectId, such as "stats". The
   query { _id: req.params.id } is cast before it is run, the cast of such a
   string throws, and the handler's catch answers 500. *)
NoObjectId == 0
Ids == {NoObjectId} \cup 1..MaxEntries
IsObjectId(id) == id # NoObjectId

(* findOne({ _id: req.params.id, user: req.user._id }) finds an entry *)
Found(user, id) == \E d \in journalDb : d.id = id /\ d.user = user

(* GET /api/journal/:id *)
GetJournal(user, id) ==
    /\ res' = [route |-> "journal",
               status |-> IF ~IsObjectId(id) THEN 500
                          ELSE IF ~Found(user, id) THEN 404 ELSE 200]
    /\ UNCHANGED <<now, tz, moodDb, journalDb, nextId, reqs, moodEntries, activities, journalEntries, metric>>

(* DELETE /api/journal/:id: found by id and owner, deleted by id *)
DeleteJournal(user, id) ==
    /\ IF ~IsObjectId(id)
       THEN /\ res' = [route |-> "journal", status |-> 500]
            /\ UNCHANGED journalDb
       ELSE IF ~Found(user, id)
       THEN /\ res' = [route |-> "journal", status |-> 404]
            /\ UNCHANGED journalDb
       ELSE /\ journalDb' = {d \in journalDb : d.id # id}
            /\ res' = [route |-> "journal", status |-> 200]
    /\ UNCHANGED <<now, tz, moodDb, nextId, reqs, moodEntries, activities, journalEntries, metric>>

(* PUT /api/journal/:id: 400 for a content of a wrong length, 500 for an id
   that is no ObjectId, 404 when the requester has no entry of that id, else
   the body is assigned and the entry saved; the content is modified when the
   value set differs from the old one *)
PutJournal(user, id, b) ==
    /\ IF b.content # Absent /\ ~ValidContent(b.content[1])
       THEN /\ res' = [route |-> "journal", status |-> 400]
            /\ UNCHANGED journalDb
       ELSE IF ~IsObjectId(id)
       THEN /\ res' = [route |-> "journal", status |-> 500]
            /\ UNCHANGED journalDb
       ELSE IF ~\E d \in journalDb : d.id = id /\ d.user = user
       THEN /\ res' = [route |-> "journal", status |-> 404]
            /\ UNCHANGED journalDb
       ELSE LET doc == CHOOSE d \in journalDb : d.id = id /\ d.user = user
                assigned == Assign(doc, b)
            IN /\ journalDb' = (journalDb \ {doc})
                                  \cup {PreSave(assigned, assigned.content # doc.content)}
               /\ res' = [route |-> "journal", status |-> 200]
    /\ UNCHANGED <<now, tz, moodDb, nextId, reqs, moodEntries, activities, journalEntries, metric>>

(* Requests of a few users with a few bodies: contents of no word, of one
   word and of about a minute's reading, and bodies that name the counters or
   the owner *)
Contents == {Content(0, 0), Content(1, 0), Content(0, 1), Content(0, ReadingSpeed),
             Content(0, ReadingSpeed + 1)}

JournalBodies ==
    {JournalBody(Some(c), Absent, Absent, Absent) : c \in Contents}
    \cup {JournalBody(Absent, Absent, Absent, Absent),
          JournalBody(Absent, Absent, Some(7), Absent),
          JournalBody(Absent, Some(3), Absent, Absent),
          JournalBody(Some(Content(0, 1)), Some(3), Some(7), Absent)}
    \cup {JournalBody(Absent, Absent, Absent, Some(u)) : u \in Users}

InitJournal ==
    /\ now = 0
    /\ tz = 0
    /\ moodDb = {}
    /\ journalDb = {}
    /\ nextId = 1
    /\ reqs = <<>>
    /\ moodEntries = <<>>
    /\ activities = <<>>
    /\ journalEntries = <<>>
    /\ metric = "mood"
    /\ res = None

NextJournal ==
    \/ \E user \in Users, b \in JournalBodies : PostJournal(user, b)
    \/ \E user \in Users, id \in Ids, b \in JournalBodies : PutJournal(user, id, b)
    \/ \E user \in Users, id \in Ids : GetJournal(user, id)
    \/ \E user \in Users, id \in Ids : DeleteJournal(user, id)

SpecJournal == InitJournal /\ [][NextJournal]_vars

-----------------------------------------------------------------------------
(* The insight rules: GET /api/analytics/overview over mood entries whose
   means lie on both sides of the limits, activities of which none, one or two
   are ranked, and journals whose streak is 0, 1, the limit and above it *)

MaxInsightMood == 2

InsightSamples ==
    MoodSamples \cup {MoodBody("neutral", 5, 6, 5, 8), MoodBody("neutral", 5, 9, 5, 8)}

(* the day of "now": late enough for a streak above the limit *)
InsightsDay == ((StreakLimit + 1) * (StreakLimit + 2)) \div 2

(* k journal entries that the streak walk counts in full: the newest of
   today, each older one a day more before its successor than the last *)
StreakChain(k) ==
    [i \in 1..k |->
        LET j == k + 1 - i
        IN JournalDoc((InsightsDay - ((j * (j + 1)) \div 2 - 1)) * TicksPerDay,
                      "neutral", <<>>)]

InsightJournals ==
    {StreakChain(0), StreakChain(1), StreakChain(StreakLimit), StreakChain(StreakLimit + 1),
     <<JournalDoc((InsightsDay - 3) * TicksPerDay, "neutral", <<>>)>>}

InsightActivities ==
    ActivityArrays \cup {<<ActivityDoc("news", "other", -2, 0, FALSE)>>,
                         <<ActivityDoc("nap", "relaxation", 1, -2, FALSE)>>,
                         <<ActivityDoc("read", "reading", 1, 1, FALSE),
                           ActivityDoc("walk", "exercise", 3, 2, TRUE)>>}

InitInsights ==
    /\ now = InsightsDay * TicksPerDay
    /\ tz \in TzOffsets
    /\ moodDb = {}
    /\ journalDb = {}
    /\ nextId = 1
    /\ reqs = <<>>
    /\ moodEntries \in SeriesOf(InsightSamples, MaxInsightMood)
    /\ activities \in InsightActivities
    /\ journalEntries \in InsightJournals
    /\ metric = "mood"
    /\ res = None

NextInsights == GetOverview

SpecInsights == InitInsights /\ [][NextInsights]_vars

-----------------------------------------------------------------------------
(* The mood scores: the three routes that read entry.moodScore, over entries
   of every mood the schema's enum admits *)

MaxScore == 2

ScoreSamples == {MoodBody(m, 5, 5, 5, 8) : m \in Moods}

InitScore == InitAnalytics(SeriesOf(ScoreSamples, MaxScore), {<<>>}, {<<>>}, {"mood"})

NextScore == GetOverview \/ GetMoodStats \/ GetTrends

SpecScore == InitScore /\ [][NextScore]_vars

-----------------------------------------------------------------------------
(* Claims *)

Today == LocalDay(now)

JournalRan == res.route \in {"journal/stats", "overview"}

StreakOut ==
    IF res.route = "overview" THEN res.journalAnalytics.writingStreak
    ELSE res.stats.writingStreak

OnDay(entries, day) == {i \in 1..Len(entries) : LocalDay(entries[i].date) = day}

(* one record on each of the k days ending today, none on the day before them *)
RunOfDays(entries, k) ==
    /\ \A j \in 0..(k - 1) : Cardinality(OnDay(entries, Today - j)) = 1
    /\ OnDay(entries, Today - k) = {}

(* C1: for a record set holding one record on each of the k most recent
   consecutive days ending today (k >= 1), and optionally older records
   after a gap of at least one empty day, the streak is k. *)
C1_StreakIsRunLength ==
    \A k \in 1..MaxJournal :
        (JournalRan /\ RunOfDays(journalEntries, k)) => StreakOut = k

(* C2: the store never holds two mood entries of one user whose dates fall on
   the same calendar day, whatever the interleaving of POST /api/mood. *)
C2_OneEntryPerUserAndDay ==
    \A d1, d2 \in moodDb :
        (d1.user = d2.user /\ LocalDay(d1.date) = LocalDay(d2.date)) => d1.id = d2.id


TrendsRan == res.route = "trends"

(* the series the trends route took from the entries *)
Series == TrendValues(moodEntries, metric)

FirstSum == SumSeq(SubSeq(Series, 1, Len(Series) \div 2))
FirstLen == Len(Series) \div 2
SecondSum == SumSeq(SubSeqFrom(Series, Len(Series) \div 2 + 1))
SecondLen == Len(Series) - Len(Series) \div 2

(* change > 5 and change < -5 for change = (secondMean - firstMean) / firstMean
   * 100, in exact arithmetic, for a first half of positive sum *)
ChangeAboveFive ==
    100 * (SecondSum * FirstLen - FirstSum * SecondLen) > 5 * FirstSum * SecondLen
ChangeBelowMinusFive ==
    100 * (SecondSum * FirstLen - FirstSum * SecondLen) < -5 * FirstSum * SecondLen

(* C3: for a series of n >= 2 values the trend is "increasing" iff the change
   of the second half's mean against the first half's is above 5 percent,
   "decreasing" iff it is below -5 percent, and "stable" otherwise. *)
C3_TrendByChange ==
    (TrendsRan /\ Len(Series) >= 2 /\ FirstSum > 0) =>
        res.statistics.trend = IF ChangeAboveFive THEN "increasing"
                               ELSE IF ChangeBelowMinusFive THEN "decreasing"
                               ELSE "stable"

(* C4: whenever the mean of the first half of the series is exactly zero, the
   trend is "stable", whatever the second half holds. *)
C4_ZeroFirstHalfIsStable ==
    (TrendsRan /\ Len(Series) >= 2 /\ FirstSum = 0) => res.statistics.trend = "stable"

(* C5, as stated: a series of 0 or 1 points gives the trend "stable" and
   min = 0 and max = 0. *)
C5_DegenerateIsZeroed ==
    (TrendsRan /\ Len(Series) <= 1) =>
        /\ res.statistics.trend = "stable"
        /\ res.statistics.min = Whole(0)
        /\ res.statistics.max = Whole(0)

(* C5, amended: a series of 0 or 1 points gives the trend "stable"; min and
   max are 0 when there are no records, the single value when the series has
   one point, and Infinity and -Infinity when there are records but the
   metric names no series. *)
C5_DegenerateIsStable ==
    (TrendsRan /\ Len(Series) <= 1) =>
        /\ res.statistics.trend = "stable"
        /\ Len(moodEntries) = 0 =>
               res.statistics.min = Whole(0) /\ res.statistics.max = Whole(0)
        /\ Len(Series) = 1 =>
               /\ res.statistics.min = Whole(Series[1])
               /\ res.statistics.max = Whole(Series[1])
        /\ (Len(moodEntries) > 0 /\ Len(Series) = 0) =>
               res.statistics.min = Infinity /\ res.statistics.max = MinusInfinity

C5_OnePointSeen == TrendsRan /\ Len(Series) = 1 /\ Series[1] > 0

OverviewRan == res.route = "overview"

ZeroMoodAnalytics(ma) ==
    /\ ma.totalEntries = 0
    /\ ma.averageMood = Zero
    /\ ma.averageEnergy = Zero
    /\ ma.averageStress = Zero
    /\ ma.averageAnxiety = Zero
    /\ ma.averageSleep = Zero
    /\ \A m \in Moods : ma.moodDistribution[m] = 0
    /\ \A m \in DOMAIN ma.trends : ma.trends[m] = <<>>

ZeroJournalAnalytics(ja) ==
    /\ ja.totalEntries = 0
    /\ ja.totalWords = 0
    /\ ja.averageWordsPerEntry = Zero
    /\ ja.averageReadingTime = Zero
    /\ \A m \in Moods : ja.moodDistribution[m] = 0
    /\ ja.mostUsedTags = <<>>
    /\ ja.writingStreak = 0

ZeroStatistics(st) ==
    /\ st.min = Whole(0)
    /\ st.max = Whole(0)
    /\ st.average = Whole(0)
    /\ st.volatility = Sqrt(Whole(0))
    /\ st.trend = "stable"

(* C6: for an empty record set every aggregate output is its zero value:
   totalEntries = 0, every average = 0, min = max = 0, volatility = 0, every
   moodDistribution bucket = 0, every trend series and the mostUsedTags list
   empty, and writingStreak = 0. *)
C6_EmptyGivesZeroes ==
    /\ (OverviewRan /\ moodEntries = <<>>) => ZeroMoodAnalytics(res.moodAnalytics)
    /\ (OverviewRan /\ journalEntries = <<>>) => ZeroJournalAnalytics(res.journalAnalytics)
    /\ (res.route = "mood/stats" /\ moodEntries = <<>>) => ZeroMoodAnalytics(res.stats)
    /\ (res.route = "journal/stats" /\ journalEntries = <<>>) =>
           ZeroJournalAnalytics(res.stats)
    /\ (TrendsRan /\ moodEntries = <<>>) =>
           res.data = <<>> /\ ZeroStatistics(res.statistics)

C6_EmptyOverviewSeen ==
    OverviewRan /\ moodEntries = <<>> /\ journalEntries = <<>> /\ activities = <<>>

DailyRan == res.route \in {"overview", "mood/stats"}

DailyOut == IF OverviewRan THEN res.moodAnalytics.trends ELSE res.stats.trends

(* the days the mood entries are dated on, and the entries of a day *)
DaysOf == {UtcDay(moodEntries[i].date) : i \in 1..Len(moodEntries)}
EntriesOn(day) == {i \in 1..Len(moodEntries) : UtcDay(moodEntries[i].date) = day}
SumOn(day, m) ==
    SumSeq([i \in 1..Len(moodEntries) |->
               IF i \in EntriesOn(day) THEN MetricValue(moodEntries[i], m) ELSE 0])

(* C7: the daily trend series of each metric has exactly one point per
   distinct day of the input, the points are in ascending date order, and
   each point's value is the mean of the metric over the records of its day. *)
C7_OnePointPerDay ==
    DailyRan =>
        \A m \in DOMAIN DailyOut :
            /\ Len(DailyOut[m]) = Cardinality(DaysOf)
            /\ \A i \in 1..Len(DailyOut[m]) :
                   \E day \in DaysOf :
                       /\ Cardinality({d \in DaysOf : d < day}) = i - 1
                       /\ DailyOut[m][i].date = DateKey(day * TicksPerDay)
                       /\ DailyOut[m][i].value.den > 0
                       /\ DailyOut[m][i].value.num * Cardinality(EntriesOn(day))
                              = DailyOut[m][i].value.den * SumOn(day, m)

(* two entries of one day with different values and an entry of another month *)
C7_SharedDaySeen ==
    /\ DailyRan
    /\ \E i, j \in 1..Len(moodEntries) :
           /\ i # j
           /\ UtcDay(moodEntries[i].date) = UtcDay(moodEntries[j].date)
           /\ moodEntries[i].energy # moodEntries[j].energy
    /\ \E i, j \in 1..Len(moodEntries) :
           MonthKey(moodEntries[i].date) # MonthKey(moodEntries[j].date)

TagsOf(r) ==
    IF r.route = "overview" THEN r.journalAnalytics.mostUsedTags ELSE r.stats.mostUsedTags

(* the tags of the entries, in the order the count pass meets them *)
RECURSIVE AllTags(_)
AllTags(entries) ==
    IF entries = <<>> THEN <<>> ELSE Head(entries).tags \o AllTags(Tail(entries))

Occurrences(entries, tag) ==
    Cardinality({i \in 1..Len(AllTags(entries)) : AllTags(entries)[i] = tag})

FirstSeen(entries, tag) ==
    CHOOSE i \in 1..Len(AllTags(entries)) :
        /\ AllTags(entries)[i] = tag
        /\ \A j \in 1..(i - 1) : AllTags(entries)[j] # tag

SetMinOf(a, b) == IF a < b THEN a ELSE b

(* C8: the ranker returns (tag, count) pairs where each count is the number
   of occurrences of the tag in the input, in non-increasing count order, and
   at most N pairs, those of the N highest counts. *)
C8_CountsRanked ==
    JournalRan =>
        LET out == TagsOf(res)
            tags == Range(AllTags(journalEntries))
        IN /\ Len(out) = SetMinOf(TopN, Cardinality(tags))
           /\ \A i \in 1..Len(out) :
                  /\ out[i].tag \in tags
                  /\ out[i].count = Num(Occurrences(journalEntries, out[i].tag))
           /\ \A i, j \in 1..Len(out) :
                  i < j => out[i].tag # out[j].tag /\ out[i].count.n >= out[j].count.n
           /\ \A t \in tags :
                  (\A i \in 1..Len(out) : out[i].tag # t) =>
                      \A i \in 1..Len(out) :
                          out[i].count.n >= Occurrences(journalEntries, t)

(* C9: any two tags of the output with equal counts stand in the order in
   which the count pass first met them, for every tag string. *)
C9_TiesInFirstSeenOrder ==
    [][(GetJournalStats \/ GetOverview) =>
          \A i, j \in 1..Len(TagsOf(res')) :
              (i < j /\ TagsOf(res')[i].count = TagsOf(res')[j].count) =>
                  FirstSeen(journalEntries, TagsOf(res')[i].tag)
                      < FirstSeen(journalEntries, TagsOf(res')[j].tag)]_vars

Emitted(list, msg) == \E i \in 1..Len(list) : list[i] = msg

ScoreSum == SumSeq([i \in 1..Len(moodEntries) |-> MoodScore(moodEntries[i].mood)])

(* the mean mood is below 3, the mean of no records being taken as 0 *)
LowMean == ScoreSum < LowMoodLimit * Len(moodEntries) \/ Len(moodEntries) = 0
GreatMean == ScoreSum > GreatMoodLimit * Len(moodEntries)

(* C10: the low-mood insight and its recommendation are both emitted iff the
   mean mood is below 3; the great-mood insight is emitted iff the mean mood
   is above 4, and then no mood recommendation and no low-mood insight is;
   for a mean from 3 to 4 neither is emitted. *)
C10_MoodRules ==
    OverviewRan =>
        /\ Emitted(res.insights, LowMoodInsight) <=> LowMean
        /\ Emitted(res.recommendations, LowMoodAdvice) <=> LowMean
        /\ Emitted(res.insights, GreatMoodInsight) <=> GreatMean
        /\ GreatMean =>
               /\ ~Emitted(res.insights, LowMoodInsight)
               /\ ~Emitted(res.recommendations, LowMoodAdvice)

(* a mean of exactly 3 over several records of different moods *)
C10_MeanAtLimitSeen ==
    /\ OverviewRan
    /\ Len(moodEntries) > 1
    /\ ScoreSum = LowMoodLimit * Len(moodEntries)
    /\ ~Emitted(res.insights, LowMoodInsight)
    /\ ~Emitted(res.insights, GreatMoodInsight)

(* C11: asked for a metric name that is not one of mood, energy, stress,
   anxiety and sleep, the trends route fails; it never answers a series or
   statistics for such a name. *)
C11_UnknownMetricFails == TrendsRan => res.metric \in Metrics

(* C12: the analytics computation leaves its input record collections
   unchanged: after a run the journal and mood record arrays hold the same
   records in the same order as before. *)
C12_InputsUnchanged ==
    [][journalEntries' = journalEntries /\ moodEntries' = moodEntries]_vars

(* C13: a second run of an analytics computation on the same records with the
   same "today" answers what the first run answered, also when it is given
   the collection as the first run left it. *)
C13_SecondRunSame ==
    [][((res.route = "journal/stats" /\ GetJournalStats)
        \/ (res.route = "overview" /\ GetOverview)) => res' = res]_vars

(* the day of the most recent journal entry *)
NewestDay == SetMax({LocalDay(journalEntries[i].date) : i \in 1..Len(journalEntries)})

(* C14: the streak is at least 1 iff the input is not empty and its most
   recent record is dated today or yesterday; for an empty input or a most
   recent record two or more days old the streak is 0. *)
C14_StreakStarts ==
    JournalRan =>
        IF Len(journalEntries) > 0 /\ Today - NewestDay <= 1
        THEN StreakOut >= 1
        ELSE StreakOut = 0

(* the most recent of several entries is of yesterday *)
C14_YesterdaySeen ==
    /\ JournalRan
    /\ Len(journalEntries) > 1
    /\ Today - NewestDay = 1
    /\ StreakOut >= 1

(* no two mood entries on one local calendar day, as the upsert of
   POST /api/mood keeps them *)
OnePerLocalDay ==
    \A i, j \in 1..Len(moodEntries) :
        i # j => LocalDay(moodEntries[i].date) # LocalDay(moodEntries[j].date)

(* C15: for mood records of which no two fall on one local calendar day, the
   daily trend series has exactly one point per record and each point's value
   is that record's own value, whatever the server's timezone offset. *)
C15_UpsertDaysNotMerged ==
    (DailyRan /\ OnePerLocalDay) =>
        \A m \in DOMAIN DailyOut :
            /\ Len(DailyOut[m]) = Len(moodEntries)
            /\ \A i \in 1..Len(DailyOut[m]) :
                   DailyOut[m][i].value = Whole(MetricValue(moodEntries[i], m))

(* the whitespace-separated words of a content *)
WordsOf(c) == c.words

(* C16: after any sequence of journal create and update operations, every
   stored journal entry has readingTime = ceil(wordCount / 200), wordCount
   being the number of whitespace-separated words of its current content. *)
C16_ReadingTimeOfContent ==
    \A d \in journalDb : d.readingTime = CeilDiv(WordsOf(d.content), ReadingSpeed)

SleepSum == SumSeq([i \in 1..Len(moodEntries) |-> moodEntries[i].sleep])
StressSum == SumSeq([i \in 1..Len(moodEntries) |-> moodEntries[i].stress])

(* the mean sleep is below 7 and the mean stress above 7, the mean of no
   records being taken as 0 *)
LowSleep == SleepSum < SleepLimit * Len(moodEntries) \/ Len(moodEntries) = 0
HighStress == StressSum > StressLimit * Len(moodEntries)

(* C17: the sleep insight and its recommendation are emitted iff the mean
   sleep is below 7 hours, the stress insight and its recommendation iff the
   mean stress is above 7, each whatever the mood rules and the other do. *)
C17_SleepAndStressRules ==
    OverviewRan =>
        /\ Emitted(res.insights, SleepInsight) <=> LowSleep
        /\ Emitted(res.recommendations, SleepAdvice) <=> LowSleep
        /\ Emitted(res.insights, StressInsight) <=> HighStress
        /\ Emitted(res.recommendations, StressAdvice) <=> HighStress

(* low sleep and high stress together, over records of different values *)
C17_BothRulesSeen ==
    /\ OverviewRan
    /\ Len(moodEntries) > 1
    /\ LowSleep
    /\ HighStress
    /\ Emitted(res.recommendations, SleepAdvice)
    /\ Emitted(res.recommendations, StressAdvice)

OverviewStreak == res.journalAnalytics.writingStreak

StreakInsights == {i \in 1..Len(res.insights) : res.insights[i].text = StreakInsight(0).text}

(* C18: the insight celebrating the streak is emitted, with the streak it
   celebrates, iff the writing streak is above 7; the recommendation to write
   daily is emitted iff the writing streak is 0 and there is a journal record;
   the two are never emitted together. *)
C18_StreakRules ==
    OverviewRan =>
        /\ Emitted(res.insights, StreakInsight(OverviewStreak)) <=> OverviewStreak > StreakLimit
        /\ \A i \in StreakInsights : res.insights[i].n = OverviewStreak
        /\ Emitted(res.recommendations, WriteDailyAdvice)
              <=> (OverviewStreak = 0 /\ Len(journalEntries) > 0)
        /\ ~(StreakInsights # {} /\ Emitted(res.recommendations, WriteDailyAdvice))

(* a streak above the limit, celebrated *)
C18_LongStreakSeen ==
    /\ OverviewRan
    /\ OverviewStreak > StreakLimit
    /\ StreakInsights # {}
    /\ ~Emitted(res.recommendations, WriteDailyAdvice)

RankedActivities == res.activityAnalytics.topActivities

Named(list) == {list[i].name : i \in 1..Len(list)} \ {""}

(* C19: with an activity ranked, the insights hold the insight on the first
   activity of the ranked list and the recommendations the advice naming it,
   and no other activity is named; with none ranked, neither list names an
   activity. *)
C19_ActivityRule ==
    OverviewRan =>
        IF Len(RankedActivities) > 0
        THEN /\ Emitted(res.insights, ActivityInsight(RankedActivities[1]))
             /\ Named(res.insights) = {RankedActivities[1].name}
             /\ Named(res.recommendations) = {RankedActivities[1].name}
        ELSE Named(res.insights) = {} /\ Named(res.recommendations) = {}

(* two activities ranked, the first of them not the first one stored *)
C19_TopOfTwoSeen ==
    /\ OverviewRan
    /\ Len(RankedActivities) > 1
    /\ RankedActivities[1].name # activities[1].name
    /\ Named(res.recommendations) = {RankedActivities[1].name}

RuleTable == <<"mood", "sleep", "stress", "activity", "streak">>

(* the place in the rule table of the rule that emits a string *)
RuleOf(msg) ==
    CASE msg \in {LowMoodInsight, GreatMoodInsight, LowMoodAdvice} -> 1
      [] msg \in {SleepInsight, SleepAdvice} -> 2
      [] msg \in {StressInsight, StressAdvice} -> 3
      [] msg.name # "" -> 4
      [] OTHER -> Len(RuleTable)

InRuleOrder(list) ==
    \A i, j \in 1..Len(list) : i < j => RuleOf(list[i]) < RuleOf(list[j])

(* C20: each of the two lists holds its strings in the order of the rule
   table, at most one string of a rule, so at most five strings and none
   twice. *)
C20_RuleOrder ==
    OverviewRan =>
        \A list \in {res.insights, res.recommendations} :
            /\ InRuleOrder(list)
            /\ Len(list) <= Len(RuleTable)
            /\ \A i, j \in 1..Len(list) : list[i] = list[j] => i = j

(* every rule of the table has fired *)
C20_AllRulesSeen ==
    /\ OverviewRan
    /\ Len(res.insights) = Len(RuleTable)
    /\ Len(res.recommendations) > 3

SeriesSum == SumSeq(Series)

(* the squares of the deviations from the mean, summed, times the square of
   the number of values *)
SquaredDeviations ==
    SumSeq([i \in 1..Len(Series) |->
               (Len(Series) * Series[i] - SeriesSum) * (Len(Series) * Series[i] - SeriesSum)])

ConstantSeries == Cardinality(Range(Series)) = 1

(* C21: for a series that is not empty the average is sum / count and the
   volatility is the root of sum((x - average)^2) / count; a constant series
   has its value as the average, volatility 0 and the trend "stable", and only
   a constant series has volatility 0. *)
C21_AverageAndVolatility ==
    (TrendsRan /\ Len(Series) > 0) =>
        LET n == Len(Series)
            average == res.statistics.average
            variance == res.statistics.volatility.sqrtOf
        IN /\ average.den > 0
           /\ average.num * n = SeriesSum * average.den
           /\ variance.den > 0
           /\ variance.num * n * n * n = SquaredDeviations * variance.den
           /\ ConstantSeries =>
                 /\ average = Whole(Series[1])
                 /\ variance.num = 0
                 /\ res.statistics.trend = "stable"
           /\ variance.num = 0 => ConstantSeries

(* the series 1, 1, 1, 1 *)
C21_ConstantSeen ==
    /\ TrendsRan
    /\ Series = <<1, 1, 1, 1>>
    /\ res.statistics.volatility = Sqrt(Zero)
    /\ res.statistics.trend = "stable"

MoodOrdinals == <<"very-sad", "sad", "neutral", "happy", "very-happy">>

Ordinal(mood) == CHOOSE i \in 1..Len(MoodOrdinals) : MoodOrdinals[i] = mood

OrdinalSum == SumSeq([i \in 1..Len(moodEntries) |-> Ordinal(moodEntries[i].mood)])

(* a number from 1 to 5 *)
InScale(q) == q.den > 0 /\ q.den <= q.num /\ q.num <= Len(MoodOrdinals) * q.den

MoodMean == IF OverviewRan THEN res.moodAnalytics.averageMood ELSE res.stats.averageMood

(* C22: wherever a statistic is derived from the mood, the score of a record
   is very-sad = 1, sad = 2, neutral = 3, happy = 4, very-happy = 5: the points
   of the trends route are these scores, the average mood of the overview and
   of the mood statistics is their mean, and every average and daily value of
   the mood lies in 1..5. *)
C22_MoodScores ==
    Len(moodEntries) > 0 =>
        /\ (TrendsRan /\ metric = "mood") =>
              /\ \A i \in 1..Len(moodEntries) :
                     res.data[i].value = Whole(Ordinal(moodEntries[i].mood))
              /\ InScale(res.statistics.min)
              /\ InScale(res.statistics.max)
              /\ InScale(res.statistics.average)
              /\ res.statistics.average.num * Len(moodEntries)
                     = OrdinalSum * res.statistics.average.den
        /\ DailyRan =>
              /\ InScale(MoodMean)
              /\ MoodMean.num * Len(moodEntries) = OrdinalSum * MoodMean.den
              /\ \A i \in 1..Len(DailyOut.mood) : InScale(DailyOut.mood[i].value)

(* the two ends of the scale in one average *)
C22_BothEndsSeen ==
    /\ DailyRan
    /\ {moodEntries[i].mood : i \in 1..Len(moodEntries)} = {"very-sad", "very-happy"}
    /\ MoodMean = Whole(3)

(* the cursor after the first k records of the sorted array have matched *)
Cursor(k) == IF k = 0 THEN LocalMidnight(now) ELSE LocalMidnight(journalEntries[k].date)

DiffDays(k) == CeilDiv(Cursor(k - 1) - LocalMidnight(journalEntries[k].date), TicksPerDay)

(* the continuation test on record k, the k - 1 records before it matched *)
Continues(k) == DiffDays(k) = k \/ (k = 1 /\ DiffDays(k) <= 1)

PassingPrefix == {k \in 0..Len(journalEntries) : \A j \in 1..k : Continues(j)}

(* C23: the walk takes the records newest first and stops at the first one
   that fails the continuation test, so the streak is the length of the
   longest prefix of the sorted records all of which pass it. *)
C23_StreakIsPassingPrefix ==
    JournalRan =>
        /\ \A i \in 1..(Len(journalEntries) - 1) :
               journalEntries[i].date >= journalEntries[i + 1].date
        /\ StreakOut = SetMax(PassingPrefix)

(* a record that fails, followed by one that would have passed in its place *)
C23_StoppedBeforePassingSeen ==
    /\ JournalRan
    /\ Len(journalEntries) = 3
    /\ StreakOut = 1
    /\ CeilDiv(Cursor(1) - LocalMidnight(journalEntries[3].date), TicksPerDay) = 2

JournalDays == {LocalDay(journalEntries[i].date) : i \in 1..Len(journalEntries)}

(* C24: the streak is at least 0 and at most the number of distinct calendar
   days the records are dated on, hence at most the number of records: the
   records of one day raise it by 1 at most. *)
C24_StreakWithinDays ==
    JournalRan =>
        /\ StreakOut >= 0
        /\ StreakOut <= Cardinality(JournalDays)
        /\ StreakOut <= Len(journalEntries)

(* several records of today, counted once *)
C24_SameDaySeen ==
    /\ JournalRan
    /\ Cardinality(OnDay(journalEntries, Today)) > 1
    /\ StreakOut = 1
    /\ Cardinality(JournalDays) < Len(journalEntries)

MoodDerived ==
    {LowMoodInsight, GreatMoodInsight, LowMoodAdvice, SleepInsight, SleepAdvice,
     StressInsight, StressAdvice}

(* C25: with no mood record in the period the overview emits no insight and
   no recommendation derived from the mood records: no low-mood insight and
   no sleep insight. *)
C25_NoMoodNoInsight ==
    (OverviewRan /\ Len(moodEntries) = 0) =>
        \A msg \in MoodDerived :
            ~Emitted(res.insights, msg) /\ ~Emitted(res.recommendations, msg)

(* C26: an update never changes the owner of a record: whatever the body, the
   entry of an id has after a request the user it had before it. *)
C26_OwnerKept ==
    [][\A d \in journalDb : \A e \in journalDb' : e.id = d.id => e.user = d.user]_vars

Request(user, id) ==
    \/ GetJournal(user, id)
    \/ DeleteJournal(user, id)
    \/ \E b \in JournalBodies : PutJournal(user, id, b)

(* C27: a request by id for a record that does not exist or is another
   user's is answered with 404 and leaves every stored record as it is, and a
   record is deleted or changed by a request of its owner only. *)
C27_ForeignIsNotFound ==
    [][/\ \A user \in Users, id \in Ids :
              (~Found(user, id) /\ Request(user, id)) =>
                  res'.status = 404 /\ journalDb' = journalDb
       /\ \A d \in journalDb :
              d \notin journalDb' =>
                  \/ DeleteJournal(d.user, d.id)
                  \/ \E b \in JournalBodies : PutJournal(d.user, d.id, b)]_vars

DistributionSum(dist) == SumSeq([i \in 1..Len(MoodOrdinals) |-> dist[MoodOrdinals[i]]])

(* the five buckets of a distribution hold as many records as were counted *)
SumsTo(analytics, entries) ==
    /\ DOMAIN analytics.moodDistribution = Moods
    /\ analytics.totalEntries = Len(entries)
    /\ DistributionSum(analytics.moodDistribution) = Len(entries)

(* C28: in every statistics response the five buckets of the mood
   distribution sum to totalEntries, the number of records of the input, for
   the mood records and for the journal records. *)
C28_DistributionSumsToTotal ==
    /\ OverviewRan =>
           /\ SumsTo(res.moodAnalytics, moodEntries)
           /\ SumsTo(res.journalAnalytics, journalEntries)
    /\ res.route = "mood/stats" => SumsTo(res.stats, moodEntries)
    /\ res.route = "journal/stats" => SumsTo(res.stats, journalEntries)

(* a bucket of two records next to a bucket of one, and a journal record *)
C28_SharedBucketSeen ==
    /\ OverviewRan
    /\ res.moodAnalytics.moodDistribution["sad"] = 2
    /\ res.moodAnalytics.moodDistribution["very-happy"] = 1
    /\ res.journalAnalytics.moodDistribution["happy"] = 1

(* C29: every activity of topActivities, and so the activity the insight
   names, has a totalImpact = moodImpact + energyImpact above 0; the list
   holds at most 10 activities, in an order of totalImpact that never rises. *)
C29_TopActivitiesPositive ==
    OverviewRan =>
        /\ Len(RankedActivities) <= TopN
        /\ \A i \in 1..Len(RankedActivities) :
               /\ RankedActivities[i].totalImpact
                      = RankedActivities[i].moodImpact + RankedActivities[i].energyImpact
               /\ RankedActivities[i].totalImpact > 0
               /\ i > 1 => RankedActivities[i - 1].totalImpact >= RankedActivities[i].totalImpact

(* the closed interval the schema declares for a metric *)
MetricInterval(m) ==
    CASE m = "mood" -> [lo |-> 1, hi |-> 5]
      [] m \in {"energy", "stress", "anxiety"} -> [lo |-> 1, hi |-> 10]
      [] m = "sleep" -> [lo |-> 0, hi |-> 24]

(* a <= b for two fractions of positive denominators *)
Leq(a, b) == a.den > 0 /\ b.den > 0 /\ a.num * b.den <= b.num * a.den

(* C30: for a series of a supported metric that is not empty,
   min <= average <= max, and min, max and average lie in the interval the
   schema declares for the metric. *)
C30_StatisticsInRange ==
    (TrendsRan /\ metric \in Metrics /\ Len(Series) > 0) =>
        /\ Leq(res.statistics.min, res.statistics.average)
        /\ Leq(res.statistics.average, res.statistics.max)
        /\ Leq(Whole(MetricInterval(metric).lo), res.statistics.min)
        /\ Leq(res.statistics.max, Whole(MetricInterval(metric).hi))

(* an average strictly between a minimum at the low end and the maximum *)
C30_SpreadSeen ==
    /\ TrendsRan
    /\ metric = "sleep"
    /\ res.statistics.min = Whole(0)
    /\ res.statistics.max = Whole(10)
    /\ Series[Len(Series)] < 10
    /\ ~Leq(res.statistics.average, res.statistics.min)
    /\ ~Leq(res.statistics.max, res.statistics.average)

====
